---- MODULE Spec2Model ----
(***************************************************************************)
(* The inventory-management client.                                        *)
(*                                                                         *)
(* Session core: the encrypted localStorage entries "token" and "role"     *)
(* (ApiService), the login form (LoginComponent), the logout button        *)
(* (AppComponent) and the route guard (GuardService).                      *)
(*                                                                         *)
(* Views: the paged transaction list (TransactionComponent), the paged     *)
(* product list (ProductComponent), the pager they embed                   *)
(* (PaginationComponent) and the chart projections of the dashboard        *)
(* (DashboardComponent).  Each view has a specification of its own.        *)
(***************************************************************************)
EXTENDS Integers, Sequences, FiniteSets, TLC

VARIABLES
    storage,        \* window.localStorage: key -> entry
    pending,        \* login requests sent by handleSubmit and not yet answered
    message,        \* LoginComponent.message
    timers,         \* setTimeout callbacks of showMessage not yet run
    navigations,    \* router.navigate calls issued by the last handler
    authorization,  \* Authorization header built by the last getHeader()
    lastGuard,      \* arguments and result of the last canActivate call
    lastOp,         \* the handler that ran last
    before          \* isAuthenticated() and isAdmin() when that handler started

VARIABLES
    txc,            \* the TransactionComponent instance: its fields
    txRequests,     \* getAllTransactions requests not yet answered, per search value
    txTimers,       \* setTimeout callbacks of its showMessage not yet run
    txLast          \* the handler of the transaction view that ran last, and what it saw

VARIABLES
    prodc,          \* the ProductComponent instance: its fields
    catalog,        \* the products the server holds
    prodLoads,      \* getAllProducts requests not yet answered
    prodDeletes,    \* deleteProduct requests not yet answered: the product ids
    prodTimers,     \* setTimeout callbacks of its showMessage not yet run
    prodLast        \* the handler of the product view that ran last, and what it saw

VARIABLES
    dash,           \* the DashboardComponent instance: its fields
    ledger,         \* the transactions the server holds
    dashLoads,      \* getAllTransactions requests of the dashboard not yet answered
    dashLast,       \* the handler of the dashboard that ran last
    dashMonthLoads, \* getTransactionsByMonthAndYear requests not yet answered, per month
    zone            \* the time zone of the browser: hours ahead of UTC

VARIABLES
    catc,           \* the CategoryComponent instance: its fields
    shelf,          \* the categories the server holds
    catRequests,    \* requests of the category view not yet answered
    catTimers,      \* setTimeout callbacks of its showMessage not yet run
    catLast         \* the handler of the category view that ran last, and what it sent

sessionVars == <<storage, pending, message, timers, navigations, authorization,
                 lastGuard, lastOp, before>>
txVars == <<txc, txRequests, txTimers, txLast>>
prodVars == <<prodc, catalog, prodLoads, prodDeletes, prodTimers, prodLast>>
dashVars == <<dash, ledger, dashLoads, dashLast, dashMonthLoads, zone>>
catVars == <<catc, shelf, catRequests, catTimers, catLast>>
\* what a handler of the session core leaves alone
viewVars == <<txVars, prodVars, dashVars, catVars>>

vars == <<sessionVars, txVars, prodVars, dashVars, catVars>>

----------------------------------------------------------------------------
(* Bounds of the model *)

\* login requests in flight at once
MaxPending == 2
\* showMessage timers outstanding at once
MaxTimers == 2
\* identifiers substituted for :supplierId, :productId, :transactionId
NumIds == 1

----------------------------------------------------------------------------
(* JavaScript values *)

JSNull == [type |-> "null"]
JSUndefined == [type |-> "undefined"]
JSTrue == [type |-> "boolean", val |-> "true"]
JSFalse == [type |-> "boolean", val |-> "false"]
Str(s) == [type |-> "string", val |-> s]
\* an array with the elements of seq
Arr(seq) == [type |-> "array", val |-> seq]

\* ToBoolean: null, undefined, false and "" are falsy; every array is truthy
Truthy(v) ==
    CASE v.type = "null" -> FALSE
      [] v.type = "undefined" -> FALSE
      [] v.type = "boolean" -> v.val = "true"
      [] v.type = "string" -> v.val # ""
      [] v.type = "array" -> TRUE

\* a || b
Or(a, b) == IF Truthy(a) THEN a ELSE b

----------------------------------------------------------------------------
(* localStorage and the AES wrapper of ApiService *)

Keys == {"token", "role"}

NoItem == [fmt |-> "none"]
\* the string CryptoJS.AES.encrypt(...).toString() produces: the OpenSSL
\* layout "Salted__" + salt + ciphertext of the message under ENCRYPTION_KEY
\* (the salt is drawn afresh each time and plays no part in what is read back)
Salted(plain) == [fmt |-> "Salted", plain |-> plain]
\* an item changed outside the application: the empty string, or a string
\* that is no longer the ciphertext of anything the application wrote.
\* AES-CBC carries no integrity check, so decrypting it either produces
\* bytes that are not UTF-8 (toString throws), no bytes, or some text.
Blank == [fmt |-> "blank"]
Damaged(yields) == [fmt |-> "damaged", yields |-> yields]
DamageOutcomes == {"malformed-utf8", "empty", "text"}
Garbled == "tok\\xef"

AESEncrypt(value) == Salted(value.val)

AESDecryptUtf8(item) ==
    CASE item.fmt = "Salted" -> [threw |-> FALSE, val |-> Str(item.plain)]
      [] item.fmt = "damaged" /\ item.yields = "malformed-utf8" ->
            [threw |-> TRUE, val |-> JSUndefined]
      [] item.fmt = "damaged" /\ item.yields = "empty" ->
            [threw |-> FALSE, val |-> Str("")]
      [] item.fmt = "damaged" /\ item.yields = "text" ->
            [threw |-> FALSE, val |-> Str(Garbled)]

\* localStorage.getItem(key): the string, or null
getItem(ls, key) == ls[key]

encryptAndSaveToStorage(ls, key, value) ==
    [ls EXCEPT ![key] = AESEncrypt(value)]

getFromStorageAndDecrypt(ls, key) ==
    LET encryptedValue == getItem(ls, key) IN
    IF encryptedValue.fmt \in {"none", "blank"} THEN JSNull
    ELSE LET r == AESDecryptUtf8(encryptedValue) IN
         IF r.threw THEN JSNull ELSE r.val

\* clearAuth removing only one of the two entries
clearAuth_TokenOnly(ls) == [ls EXCEPT !["token"] = NoItem]
clearAuth_RoleOnly(ls) == [ls EXCEPT !["role"] = NoItem]

clearAuth(ls) == [ls EXCEPT !["token"] = NoItem, !["role"] = NoItem]

\* a logout that forgets the role entry
logout_KeepsRole(ls) == [ls EXCEPT !["token"] = NoItem]

logout(ls) == clearAuth(ls)

getHeader(ls) == <<"Bearer", getFromStorageAndDecrypt(ls, "token")>>

\* isAuthenticated testing the token against null only
isAuthenticated_NotNull(ls) == getFromStorageAndDecrypt(ls, "token") # JSNull

isAuthenticated(ls) == Truthy(getFromStorageAndDecrypt(ls, "token"))

\* isAdmin comparing without regard to case
UpperCase(s) == IF s = "admin" THEN "ADMIN" ELSE s
isAdmin_IgnoreCase(ls) ==
    LET role == getFromStorageAndDecrypt(ls, "role") IN
    role.type = "string" /\ UpperCase(role.val) = "ADMIN"

isAdmin(ls) == getFromStorageAndDecrypt(ls, "role") = Str("ADMIN")

----------------------------------------------------------------------------
(* Route table and guard *)

NoData == [requiresAdmin |-> JSUndefined]
AdminData == [requiresAdmin |-> JSTrue]

\* the route table with the flag forgotten on 'product'
routes_ProductUnflagged ==
    { [path |-> "login", guarded |-> FALSE, param |-> FALSE, data |-> NoData],
      [path |-> "register", guarded |-> FALSE, param |-> FALSE, data |-> NoData],
      [path |-> "category", guarded |-> TRUE, param |-> FALSE, data |-> AdminData],
      [path |-> "supplier", guarded |-> TRUE, param |-> FALSE, data |-> AdminData],
      [path |-> "edit-supplier/:supplierId", guarded |-> TRUE, param |-> TRUE, data |-> AdminData],
      [path |-> "add-supplier", guarded |-> TRUE, param |-> FALSE, data |-> AdminData],
      [path |-> "product", guarded |-> TRUE, param |-> FALSE, data |-> NoData],
      [path |-> "edit-product/:productId", guarded |-> TRUE, param |-> TRUE, data |-> AdminData],
      [path |-> "add-product", guarded |-> TRUE, param |-> FALSE, data |-> AdminData],
      [path |-> "purchase", guarded |-> TRUE, param |-> FALSE, data |-> NoData],
      [path |-> "sell", guarded |-> TRUE, param |-> FALSE, data |-> NoData],
      [path |-> "transaction", guarded |-> TRUE, param |-> FALSE, data |-> NoData],
      [path |-> "transaction/:transactionId", guarded |-> TRUE, param |-> TRUE, data |-> NoData],
      [path |-> "profile", guarded |-> TRUE, param |-> FALSE, data |-> NoData],
      [path |-> "dashboard", guarded |-> TRUE, param |-> FALSE, data |-> NoData] }

routes ==
    { [path |-> "login", guarded |-> FALSE, param |-> FALSE, data |-> NoData],
      [path |-> "register", guarded |-> FALSE, param |-> FALSE, data |-> NoData],
      [path |-> "category", guarded |-> TRUE, param |-> FALSE, data |-> AdminData],
      [path |-> "supplier", guarded |-> TRUE, param |-> FALSE, data |-> AdminData],
      [path |-> "edit-supplier/:supplierId", guarded |-> TRUE, param |-> TRUE, data |-> AdminData],
      [path |-> "add-supplier", guarded |-> TRUE, param |-> FALSE, data |-> AdminData],
      [path |-> "product", guarded |-> TRUE, param |-> FALSE, data |-> AdminData],
      [path |-> "edit-product/:productId", guarded |-> TRUE, param |-> TRUE, data |-> AdminData],
      [path |-> "add-product", guarded |-> TRUE, param |-> FALSE, data |-> AdminData],
      [path |-> "purchase", guarded |-> TRUE, param |-> FALSE, data |-> NoData],
      [path |-> "sell", guarded |-> TRUE, param |-> FALSE, data |-> NoData],
      [path |-> "transaction", guarded |-> TRUE, param |-> FALSE, data |-> NoData],
      [path |-> "transaction/:transactionId", guarded |-> TRUE, param |-> TRUE, data |-> NoData],
      [path |-> "profile", guarded |-> TRUE, param |-> FALSE, data |-> NoData],
      [path |-> "dashboard", guarded |-> TRUE, param |-> FALSE, data |-> NoData] }

\* state.url of a navigation to the route: the path, with the parameter filled in
UrlsOf(route) ==
    IF route.param THEN {<<route.path, i>> : i \in 1..NumIds} ELSE {<<route.path>>}

NoQuery == <<>>
Navigate(commands, returnUrl) == [commands |-> commands, returnUrl |-> returnUrl]

\* the guard with the role check left out
canActivate_AuthOnly(ls, data, url) ==
    IF isAuthenticated(ls)
    THEN [result |-> TRUE, navs |-> <<>>]
    ELSE [result |-> FALSE, navs |-> <<Navigate("/login", url)>>]

\* the guard redirecting without the return path on the admin branch
canActivate_NoReturnUrl(ls, data, url) ==
    IF Truthy(Or(data.requiresAdmin, JSFalse))
    THEN IF isAdmin(ls)
         THEN [result |-> TRUE, navs |-> <<>>]
         ELSE [result |-> FALSE, navs |-> <<Navigate("/login", NoQuery)>>]
    ELSE IF isAuthenticated(ls)
         THEN [result |-> TRUE, navs |-> <<>>]
         ELSE [result |-> FALSE, navs |-> <<Navigate("/login", url)>>]

\* GuardService.canActivate: the value returned and the navigations issued
canActivate(ls, data, url) ==
    LET requiresAdmin == Or(data.requiresAdmin, JSFalse) IN
    IF Truthy(requiresAdmin)
    THEN IF isAdmin(ls)
         THEN [result |-> TRUE, navs |-> <<>>]
         ELSE [result |-> FALSE, navs |-> <<Navigate("/login", url)>>]
    ELSE IF isAuthenticated(ls)
         THEN [result |-> TRUE, navs |-> <<>>]
         ELSE [result |-> FALSE, navs |-> <<Navigate("/login", url)>>]

----------------------------------------------------------------------------
(* Inputs *)

\* form fields of the login view
Emails == {"", "a@ims"}
Passwords == {"", "pw"}

\* answers of POST /auth/login.  A body with status 200 carries the bearer
\* token the backend issued and the role of the account.
Tokens == {"t", "jwt2"}
Roles == {"ADMIN", "admin", "USER"}
Bodies ==
    {[status |-> 200, token |-> Str(t), role |-> Str(r)] : t \in Tokens, r \in Roles}
    \cup {[status |-> 401, token |-> JSUndefined, role |-> JSUndefined]}
\* HttpErrorResponse values: error.error.message and error.message
HttpErrors ==
    { [error |-> [message |-> Str("Invalid credentials")], message |-> Str("Http failure response")],
      [error |-> [message |-> JSUndefined], message |-> Str("Http failure response")],
      [error |-> [message |-> JSUndefined], message |-> JSUndefined] }

AllFieldsMessage == Str("Todos los campos son necesarios")
FallbackMessage == Str("No se pudo iniciar sesion[object Object]")

----------------------------------------------------------------------------
(* Paged lists: what the list views and their pager compute *)

\* TransactionComponent.itemsPerPage and ProductComponent.itemsPerPage
itemsPerPage == 10
\* size of the largest collection a server returns
MaxItems == 21

Min(a, b) == IF a < b THEN a ELSE b
Max(a, b) == IF a > b THEN a ELSE b

\* the id of the i-th record a server returns: the server's order is not
\* the order of the ids, and no id occurs twice
Item(i) == (i * 7) % 31
Collection(n) == [i \in 1..n |-> Item(i)]
Collections == {Collection(n) : n \in 0..MaxItems}

\* Math.floor(n / d) for n >= 0 and d > 0
MathFloorDiv(n, d) == n \div d
\* Math.ceil(n / d) for n >= 0 and d > 0
MathCeilDiv(n, d) == IF n % d = 0 THEN n \div d ELSE (n \div d) + 1

\* a slice that takes the element at end as well
slice_EndInclusive(arr, start, end) ==
    LET len == Len(arr)
        from == Min(start, len)
        to == Min(end + 1, len)
    IN IF from < to THEN SubSeq(arr, from + 1, to) ELSE <<>>

\* Array.prototype.slice(start, end): a negative index counts from the end,
\* both indexes are clamped to the array, an empty range gives []
slice(arr, start, end) ==
    LET len == Len(arr)
        from == IF start < 0 THEN Max(len + start, 0) ELSE Min(start, len)
        to == IF end < 0 THEN Max(len + end, 0) ELSE Min(end, len)
    IN IF from < to THEN SubSeq(arr, from + 1, to) ELSE <<>>

\* page buttons numbered from 0
pageNumbers_FromZero(totalPages) == [i \in 1..totalPages |-> i - 1]

\* PaginationComponent.pageNumbers
pageNumbers(totalPages) == [i \in 1..totalPages |-> (i - 1) + 1]

\* a pager that checks the lower end of the range only
onPageChange_NoUpperEnd(page, totalPages) ==
    IF page >= 1 THEN <<page>> ELSE <<>>

\* PaginationComponent.onPageChange: the values pageChange emits
onPageChange(page, totalPages) ==
    IF page >= 1 /\ page <= totalPages THEN <<page>> ELSE <<>>

\* the pager as the template of a list view renders it after a handler
\* of the view has run: its two inputs and the buttons it shows
Pager(c) ==
    [currentPage |-> c.currentPage,
     totalPages |-> c.totalPages,
     pageNumbers |-> pageNumbers(c.totalPages)]

\* pages a user can ask the pager for: every button, and one off either end
PageInputs == 0 .. (MathCeilDiv(MaxItems, itemsPerPage) + 1)

\* HttpErrorResponse values of a failed list request
LoadErrors ==
    { [error |-> [message |-> Str("Server error")], message |-> Str("Http failure response")],
      [error |-> [message |-> JSUndefined], message |-> JSUndefined] }

----------------------------------------------------------------------------
(* State machine *)

\* lastGuard and authorization when the last handler was not the guard,
\* respectively built no header
NoGuard == [data |-> NoData, url |-> <<"">>, result |-> FALSE]
NoHeader == <<"none", JSNull>>

\* what the two session predicates answer on a store
Session(ls) == [auth |-> isAuthenticated(ls), admin |-> isAdmin(ls)]

\* an AppComponent as its field initialiser leaves it
NewAppComponent == [title |-> "ims"]

\* what the user types into the search box of the transaction view
SearchInputs == {"", "abc"}

\* a TransactionComponent as its field initialisers leave it; started says
\* whether ngOnInit has run
NewTransactionComponent ==
    [transactions |-> <<>>,
     message |-> Str(""),
     searchInput |-> "",
     valueToSearch |-> "",
     currentPage |-> 1,
     totalPages |-> 0,
     started |-> FALSE]

\* txLast when no handler of the transaction view has run
NoTxHandler ==
    [op |-> "new", page |-> 0, items |-> <<>>, emitted |-> <<>>,
     search |-> "", pager |-> Pager(NewTransactionComponent)]

TxInit ==
    /\ txc = NewTransactionComponent
    /\ txRequests = [s \in SearchInputs |-> 0]
    /\ txTimers = 0
    /\ txLast = NoTxHandler

\* a ProductComponent as its field initialisers leave it
NewProductComponent ==
    [products |-> <<>>,
     message |-> Str(""),
     currentPage |-> 1,
     totalPages |-> 0,
     started |-> FALSE]

\* prodLast when no handler of the product view has run
NoProdHandler ==
    [op |-> "new", page |-> 0, items |-> <<>>, emitted |-> <<>>, threw |-> FALSE,
     pager |-> Pager(NewProductComponent)]

\* the product view before ngOnInit, the server holding the products held
ProdInit(held) ==
    /\ prodc = NewProductComponent
    /\ catalog = held
    /\ prodLoads = 0
    /\ prodDeletes = {}
    /\ prodTimers = 0
    /\ prodLast = NoProdHandler

\* the months and years the user picks in the selects of the dashboard
\* (values of DashboardComponent.months, elements of DashboardComponent.years)
Months == {"03", "04"}
Years == {"2024"}
\* Number.parseInt of a string of decimal digits
ParseInt(s) ==
    CASE s = "03" -> 3
      [] s = "04" -> 4
      [] s = "2024" -> 2024
\* time zones of the browser, in hours ahead of UTC: UTC and UTC-5
Zones == {0, -5}
UTC == 0

\* a DashboardComponent as its field initialisers leave it
NewDashboardComponent ==
    [transactions |-> Arr(<<>>),
     transactionTypeData |-> <<>>,
     transactionAmountData |-> <<>>,
     monthlyTransactionData |-> <<>>,
     selectedMonth |-> "",
     selectedYear |-> "",
     started |-> FALSE]

\* the dashboard before ngOnInit, the server holding the transactions held
DashInit(held) ==
    /\ dash = NewDashboardComponent
    /\ ledger = held
    /\ dashLoads = 0
    /\ dashLast = "new"
    /\ dashMonthLoads = [month \in {ParseInt(s) : s \in Months} |-> 0]

\* a CategoryComponent as its field initialisers leave it
NewCategoryComponent ==
    [categories |-> <<>>,
     categoryName |-> "",
     message |-> Str(""),
     isEditing |-> FALSE,
     editingCategoryId |-> JSNull,
     started |-> FALSE]

\* catLast when no handler of the category view has run
NoCatHandler == [op |-> "new", sent |-> <<>>, wasEditing |-> FALSE]

\* the category view before ngOnInit, the server holding the categories held
CatInit(held) ==
    /\ catc = NewCategoryComponent
    /\ shelf = held
    /\ catRequests = <<>>
    /\ catTimers = 0
    /\ catLast = NoCatHandler

SessionInit ==
    /\ storage = [k \in Keys |-> NoItem]
    /\ pending = 0
    /\ message = JSNull
    /\ timers = 0
    /\ navigations = <<>>
    /\ authorization = NoHeader
    /\ lastGuard = NoGuard
    /\ lastOp = "init"
    /\ before = Session([k \in Keys |-> NoItem])

\* nobody signed in, every view as constructed, the server holding nothing
Init ==
    /\ SessionInit
    /\ TxInit
    /\ ProdInit(<<>>)
    /\ DashInit(<<>>)
    /\ zone = UTC
    /\ CatInit(<<>>)

\* LoginComponent.handleSubmit, up to the await of the request
HandleSubmit(email, password) ==
    IF email = "" \/ password = ""
    THEN /\ timers < MaxTimers
         /\ message' = AllFieldsMessage
         /\ timers' = timers + 1
         /\ navigations' = <<>>
         /\ lastOp' = "submitRejected"
         /\ before' = Session(storage)
         /\ UNCHANGED <<storage, pending, viewVars>>
         /\ authorization' = NoHeader
         /\ lastGuard' = NoGuard
    ELSE /\ pending < MaxPending
         /\ pending' = pending + 1
         /\ navigations' = <<>>
         /\ lastOp' = "submit"
         /\ before' = Session(storage)
         /\ UNCHANGED <<storage, message, timers, viewVars>>
         /\ authorization' = NoHeader
         /\ lastGuard' = NoGuard

\* handleSubmit storing the role of any answer, whatever its status
LoginResponse_RoleUnchecked(response) ==
    /\ pending > 0
    /\ pending' = pending - 1
    /\ IF response.status = 200
       THEN /\ storage' = encryptAndSaveToStorage(
                              encryptAndSaveToStorage(storage, "token", response.token),
                              "role", response.role)
            /\ navigations' = <<Navigate("/dashboard", NoQuery)>>
            /\ lastOp' = "loginStored"
       ELSE /\ storage' = encryptAndSaveToStorage(storage, "role", Str("USER"))
            /\ navigations' = <<>>
            /\ lastOp' = "loginIgnored"
    /\ before' = Session(storage)
    /\ UNCHANGED <<message, timers, viewVars>>
    /\ authorization' = NoHeader
    /\ lastGuard' = NoGuard

\* a login that goes to the dashboard whatever the status of the answer
LoginResponse_AlwaysNavigates(response) ==
    /\ pending > 0
    /\ pending' = pending - 1
    /\ IF response.status = 200
       THEN /\ storage' = encryptAndSaveToStorage(
                              encryptAndSaveToStorage(storage, "token", response.token),
                              "role", response.role)
            /\ lastOp' = "loginStored"
       ELSE /\ storage' = storage
            /\ lastOp' = "loginIgnored"
    /\ navigations' = <<Navigate("/dashboard", NoQuery)>>
    /\ before' = Session(storage)
    /\ UNCHANGED <<message, timers, viewVars>>
    /\ authorization' = NoHeader
    /\ lastGuard' = NoGuard

\* LoginComponent.handleSubmit, from the resolution of the request on
LoginResponse(response) ==
    /\ pending > 0
    /\ pending' = pending - 1
    /\ IF response.status = 200
       THEN /\ storage' = encryptAndSaveToStorage(
                              encryptAndSaveToStorage(storage, "token", response.token),
                              "role", response.role)
            /\ navigations' = <<Navigate("/dashboard", NoQuery)>>
            /\ lastOp' = "loginStored"
            /\ before' = Session(storage)
       ELSE /\ storage' = storage
            /\ navigations' = <<>>
            /\ lastOp' = "loginIgnored"
            /\ before' = Session(storage)
    /\ UNCHANGED <<message, timers, viewVars>>
    /\ authorization' = NoHeader
    /\ lastGuard' = NoGuard

\* LoginComponent.handleSubmit, when the request fails
LoginError(error) ==
    /\ pending > 0
    /\ timers < MaxTimers
    /\ pending' = pending - 1
    /\ message' = Or(error.error.message, Or(error.message, FallbackMessage))
    /\ timers' = timers + 1
    /\ navigations' = <<>>
    /\ lastOp' = "loginFailed"
    /\ before' = Session(storage)
    /\ UNCHANGED <<storage, viewVars>>
    /\ authorization' = NoHeader
    /\ lastGuard' = NoGuard

\* the callback showMessage hands to setTimeout
MessageTimeout ==
    /\ timers > 0
    /\ timers' = timers - 1
    /\ message' = JSNull
    /\ navigations' = <<>>
    /\ lastOp' = "timeout"
    /\ before' = Session(storage)
    /\ UNCHANGED <<storage, pending, viewVars>>
    /\ authorization' = NoHeader
    /\ lastGuard' = NoGuard

\* a logout button that only navigates
LogOut_NavigateOnly ==
    /\ storage' = storage
    /\ navigations' = <<Navigate("/login", NoQuery)>>
    /\ lastOp' = "logOut"
    /\ before' = Session(storage)
    /\ UNCHANGED <<pending, message, timers, viewVars>>
    /\ authorization' = NoHeader
    /\ lastGuard' = NoGuard

\* AppComponent.logOut
LogOut ==
    /\ storage' = logout(storage)
    /\ navigations' = <<Navigate("/login", NoQuery)>>
    /\ lastOp' = "logOut"
    /\ before' = Session(storage)
    /\ UNCHANGED <<pending, message, timers, viewVars>>
    /\ authorization' = NoHeader
    /\ lastGuard' = NoGuard

\* the guard ending the session when it denies
CanActivate_LogsOutOnDenial(route, url) ==
    /\ route.guarded
    /\ url \in UrlsOf(route)
    /\ LET d == canActivate(storage, route.data, url) IN
        /\ lastGuard' = [data |-> route.data, url |-> url, result |-> d.result]
        /\ navigations' = d.navs
        /\ storage' = IF d.result THEN storage ELSE logout(storage)
    /\ lastOp' = "canActivate"
    /\ before' = Session(storage)
    /\ UNCHANGED <<pending, message, timers, viewVars>>
    /\ authorization' = NoHeader

\* the router asks the guard about a navigation to a guarded route
CanActivate(route, url) ==
    /\ route.guarded
    /\ url \in UrlsOf(route)
    /\ LET d == canActivate(storage, route.data, url) IN
        /\ lastGuard' = [data |-> route.data, url |-> url, result |-> d.result]
        /\ navigations' = d.navs
    /\ lastOp' = "canActivate"
    /\ before' = Session(storage)
    /\ UNCHANGED <<storage, pending, message, timers, viewVars>>
    /\ authorization' = NoHeader

\* any data request of ApiService (load, search, save, delete): it builds
\* its headers from the stored token
ApiRequest ==
    /\ authorization' = getHeader(storage)
    /\ navigations' = <<>>
    /\ lastOp' = "apiRequest"
    /\ before' = Session(storage)
    /\ UNCHANGED <<storage, pending, message, timers, viewVars>>
    /\ lastGuard' = NoGuard

\* the stored string of a key is changed outside the application
Tamper(key, item) ==
    /\ storage[key].fmt = "Salted"
    /\ storage' = [storage EXCEPT ![key] = item]
    /\ navigations' = <<>>
    /\ lastOp' = "tamper"
    /\ before' = Session(storage)
    /\ UNCHANGED <<pending, message, timers, viewVars>>
    /\ authorization' = NoHeader
    /\ lastGuard' = NoGuard

Next ==
    \/ \E e \in Emails, p \in Passwords : HandleSubmit(e, p)
    \/ \E b \in Bodies : LoginResponse(b)
    \/ \E err \in HttpErrors : LoginError(err)
    \/ MessageTimeout
    \/ LogOut
    \/ \E r \in routes : \E u \in UrlsOf(r) : CanActivate(r, u)
    \/ ApiRequest

Spec == Init /\ [][Next]_vars

NextTamper ==
    \/ Next
    \/ \E k \in Keys, i \in {Blank} \cup {Damaged(y) : y \in DamageOutcomes} : Tamper(k, i)

SpecTamper == Init /\ [][NextTamper]_vars

----------------------------------------------------------------------------
(* What the store holds, read off the stored items themselves *)

TokenStored == storage["token"].fmt = "Salted" /\ storage["token"].plain # ""
RoleStoredADMIN == storage["role"].fmt = "Salted" /\ storage["role"].plain = "ADMIN"
Anonymous == ~TokenStored
AuthenticatedNonAdmin == TokenStored /\ ~RoleStoredADMIN
AuthenticatedAdmin == TokenStored /\ RoleStoredADMIN

RouteFlags == {JSTrue, JSFalse, JSUndefined}
AllUrls == UNION {UrlsOf(r) : r \in routes}

----------------------------------------------------------------------------
(* C1..C3: the guard *)

ExpectedDecision(flag) ==
    \/ flag = JSTrue /\ isAdmin(storage)
    \/ flag \in {JSFalse, JSUndefined} /\ isAuthenticated(storage)

\* C1: for every route flag (true, false, missing) and every stored session,
\* canActivate returns true iff (the flag is true and isAdmin()) or (the flag
\* is false or missing and isAuthenticated()), and false otherwise.
C1_GuardDecision ==
    /\ \A flag \in RouteFlags, u \in AllUrls :
          canActivate(storage, [requiresAdmin |-> flag], u).result = ExpectedDecision(flag)
    /\ lastOp = "canActivate" =>
          lastGuard.result = ExpectedDecision(lastGuard.data.requiresAdmin)

C1_Witness ==
    /\ lastOp = "canActivate"
    /\ lastGuard.data.requiresAdmin = JSTrue
    /\ AuthenticatedAdmin
    /\ lastGuard.result

\* C2: a denying canActivate issues exactly one navigation, to '/login' with
\* returnUrl = state.url; an allowing canActivate issues none.
C2_DenialRedirects ==
    /\ \A flag \in RouteFlags, u \in AllUrls :
          LET d == canActivate(storage, [requiresAdmin |-> flag], u) IN
          d.navs = IF d.result THEN <<>> ELSE <<Navigate("/login", u)>>
    /\ lastOp = "canActivate" =>
          navigations = IF lastGuard.result THEN <<>>
                        ELSE <<Navigate("/login", lastGuard.url)>>

C2_Witness ==
    /\ lastOp = "canActivate"
    /\ ~lastGuard.result
    /\ lastGuard.url = <<"edit-supplier/:supplierId", 1>>
    /\ Len(navigations) = 1

AdminPaths ==
    {"category", "supplier", "edit-supplier/:supplierId", "add-supplier",
     "product", "edit-product/:productId", "add-product"}

\* C3: with a token stored and a role other than "ADMIN", a navigation to any
\* of the seven routes configured with requiresAdmin: true is denied and
\* redirected to '/login'.
C3_NonAdminDenied ==
    /\ AdminPaths \subseteq {r.path : r \in {x \in routes : x.guarded}}
    /\ (lastOp = "canActivate" /\ AuthenticatedNonAdmin /\ lastGuard.url[1] \in AdminPaths) =>
          /\ ~lastGuard.result
          /\ navigations = <<Navigate("/login", lastGuard.url)>>

C3_Witness ==
    /\ lastOp = "canActivate"
    /\ AuthenticatedNonAdmin
    /\ lastGuard.url[1] = "edit-product/:productId"
    /\ ~lastGuard.result

----------------------------------------------------------------------------
(* C4..C7: the session state machine *)

\* C4: after any sequence of logins, logouts and guard evaluations the session
\* is Anonymous, Authenticated-NonAdmin or Authenticated-Admin: isAdmin() is
\* never true while isAuthenticated() is false.
C4_ThreeStates ==
    /\ ~(isAdmin(storage) /\ ~isAuthenticated(storage))
    /\ RoleStoredADMIN => TokenStored
    /\ Cardinality({x \in {"anonymous", "nonadmin", "admin"} :
                       \/ x = "anonymous" /\ Anonymous /\ ~isAuthenticated(storage)
                       \/ x = "nonadmin" /\ AuthenticatedNonAdmin /\ isAuthenticated(storage)
                       \/ x = "admin" /\ AuthenticatedAdmin /\ isAdmin(storage)}) = 1

C4_Witness ==
    /\ lastOp = "logOut"
    /\ before = [auth |-> TRUE, admin |-> TRUE]
    /\ Anonymous
    /\ ~isAdmin(storage)

C6_NoDirectRoleSwitch ==
    [][ (isAuthenticated(storage) /\ isAuthenticated(storage')) =>
            isAdmin(storage') = isAdmin(storage) ]_vars

\* C6, amended: the only step that takes an authenticated session from admin
\* to non-admin or back is a login that stores its answer (handleSubmit
\* receiving status 200 while a session is already stored); no logout is
\* needed in between, and no other step changes isAdmin() of a session that
\* stays authenticated.
C6_RoleSwitchOnlyByLogin ==
    [][ (isAuthenticated(storage) /\ isAuthenticated(storage')
            /\ isAdmin(storage') # isAdmin(storage)) => lastOp' = "loginStored" ]_vars

C6_Witness ==
    /\ lastOp = "loginStored"
    /\ before = [auth |-> TRUE, admin |-> TRUE]
    /\ AuthenticatedNonAdmin

\* C7: isAuthenticated() is false right after logout(), and true right after
\* a login that stored a non-empty token, whatever the role.
C7_AfterLogoutAfterLogin ==
    /\ lastOp = "logOut" => ~isAuthenticated(storage)
    /\ (lastOp = "loginStored" /\ storage["token"].plain # "") => isAuthenticated(storage)

C7_Witness ==
    /\ lastOp = "loginStored"
    /\ storage["token"] = Salted("t")
    /\ storage["role"] = Salted("USER")
    /\ isAuthenticated(storage)

----------------------------------------------------------------------------
(* C8..C10: reading the store *)

\* C8: isAuthenticated() is true iff the value read under "token" is present
\* (not null) and is not the empty string.
C8_AuthenticatedIffToken ==
    /\ isAuthenticated(storage) <=>
          LET token == getFromStorageAndDecrypt(storage, "token") IN
          token # JSNull /\ token # Str("")
    /\ storage["token"].fmt = "Salted" =>
          (isAuthenticated(storage) <=> storage["token"].plain # "")
    /\ storage["token"].fmt = "none" => ~isAuthenticated(storage)

C8_Witness ==
    /\ getFromStorageAndDecrypt(storage, "token") = Str("")
    /\ ~isAuthenticated(storage)

\* C9: isAdmin() is true iff the value read under "role" is exactly "ADMIN";
\* it is false for "admin", for any other role and for a missing role.
C9_AdminIffExactRole ==
    /\ storage["role"].fmt = "Salted" =>
          (isAdmin(storage) <=> storage["role"].plain = "ADMIN")
    /\ storage["role"].fmt # "Salted" => ~isAdmin(storage)
    /\ getFromStorageAndDecrypt(storage, "role") = Str("admin") => ~isAdmin(storage)

C9_Witness ==
    /\ lastOp = "loginStored"
    /\ storage["role"] = Salted("admin")
    /\ ~isAdmin(storage)

Corrupted(key) == storage[key].fmt \in {"blank", "damaged"}
Without(key) == [storage EXCEPT ![key] = NoItem]

\* C10: an entry whose stored ciphertext was corrupted behaves as a missing
\* one: isAuthenticated(), isAdmin() and every guard decision are those of the
\* store with the entry removed.
C10_CorruptActsAsMissing ==
    \A key \in Keys : Corrupted(key) =>
        /\ isAuthenticated(storage) = isAuthenticated(Without(key))
        /\ isAdmin(storage) = isAdmin(Without(key))
        /\ \A flag \in RouteFlags, u \in AllUrls :
              canActivate(storage, [requiresAdmin |-> flag], u)
                  = canActivate(Without(key), [requiresAdmin |-> flag], u)

----------------------------------------------------------------------------
\* a store without entries
NoEntries == [k \in Keys |-> NoItem]

(* C11: ApiService.logout() removes both entries whatever the store held,  *)
(* also when an entry is absent already; a second logout changes nothing;  *)
(* afterwards isAuthenticated() and isAdmin() answer false.  The store is  *)
(* the one the program reached, damaged entries included, and the step of  *)
(* the logout button leaves exactly that store.                            *)
C11_LogoutClearsBoth ==
    /\ logout(storage) = NoEntries
    /\ logout(logout(storage)) = logout(storage)
    /\ ~isAuthenticated(logout(storage))
    /\ ~isAdmin(logout(storage))
    /\ lastOp = "logOut" => storage = NoEntries /\ Session(storage) = [auth |-> FALSE, admin |-> FALSE]

\* a logout pressed when nothing was stored any more
C11_Witness ==
    /\ lastOp = "logOut"
    /\ ~before.auth
    /\ storage = NoEntries

----------------------------------------------------------------------------
(* The transaction view: TransactionComponent with its pager *)

\* answers of GET /transactions/all: a body with the matching transactions,
\* or a body without the field
TxAnswers == {[transactions |-> Arr(c)] : c \in Collections}
             \cup {[transactions |-> JSUndefined]}

\* the first page computed with the rounding gone the other way
loadTransactionsNext_Floor(c, res) ==
    LET transactions == Or(res.transactions, Arr(<<>>)).val IN
    [c EXCEPT !.totalPages = MathFloorDiv(Len(transactions), itemsPerPage),
              !.transactions = slice(transactions,
                                     (c.currentPage - 1) * itemsPerPage,
                                     c.currentPage * itemsPerPage)]

\* the next callback of loadTransactions: the component it leaves
loadTransactionsNext(c, res) ==
    LET transactions == Or(res.transactions, Arr(<<>>)).val IN
    [c EXCEPT !.totalPages = MathCeilDiv(Len(transactions), itemsPerPage),
              !.transactions = slice(transactions,
                                     (c.currentPage - 1) * itemsPerPage,
                                     c.currentPage * itemsPerPage)]

\* error?.error?.message || error?.message || 'Unable to Get all Transactions ' + error
TxErrorMessage(error) ==
    Or(Or(error.error.message, error.message),
       Str("Unable to Get all Transactions [object Object]"))

TxOutstanding == txRequests[""] + txRequests["abc"]

\* TransactionComponent.ngOnInit
TxNgOnInit ==
    /\ ~txc.started
    /\ TxOutstanding < MaxPending
    /\ txc' = [txc EXCEPT !.started = TRUE]
    /\ txRequests' = [txRequests EXCEPT ![txc.valueToSearch] = @ + 1]
    /\ txLast' = [NoTxHandler EXCEPT !.op = "ngOnInit", !.pager = Pager(txc')]
    /\ UNCHANGED <<txTimers, sessionVars, prodVars, dashVars, catVars>>

\* TransactionComponent.handleSearch, the search box holding input
TxHandleSearch(input) ==
    /\ txc.started
    /\ TxOutstanding < MaxPending
    /\ txc' = [txc EXCEPT !.searchInput = input,
                          !.currentPage = 1,
                          !.valueToSearch = input]
    /\ txRequests' = [txRequests EXCEPT ![input] = @ + 1]
    /\ txLast' = [NoTxHandler EXCEPT !.op = "handleSearch", !.pager = Pager(txc')]
    /\ UNCHANGED <<txTimers, sessionVars, prodVars, dashVars, catVars>>

\* a click on the pager of the view, asking for page: the pager's
\* onPageChange and, for each value it emits, TransactionComponent.onPageChange
TxPageClick(page) ==
    LET emitted == onPageChange(page, txc.totalPages) IN
    /\ txc.started
    /\ IF emitted # <<>>
       THEN /\ TxOutstanding < MaxPending
            /\ txc' = [txc EXCEPT !.currentPage = emitted[1]]
            /\ txRequests' = [txRequests EXCEPT ![txc.valueToSearch] = @ + 1]
       ELSE UNCHANGED <<txc, txRequests>>
    /\ txLast' = [NoTxHandler EXCEPT !.op = "pageClick", !.page = page,
                                     !.emitted = emitted, !.pager = Pager(txc')]
    /\ UNCHANGED <<txTimers, sessionVars, prodVars, dashVars, catVars>>

\* the answer to a request for search value s arrives: the next callback
TxLoaded(s, res) ==
    /\ txRequests[s] > 0
    /\ txRequests' = [txRequests EXCEPT ![s] = @ - 1]
    /\ txc' = loadTransactionsNext(txc, res)
    /\ txLast' = [NoTxHandler EXCEPT !.op = "loaded",
                                     !.items = Or(res.transactions, Arr(<<>>)).val,
                                     !.search = s,
                                     !.pager = Pager(txc')]
    /\ UNCHANGED <<txTimers, sessionVars, prodVars, dashVars, catVars>>

\* a request for search value s fails: the error callback and showMessage
TxLoadFailed(s, error) ==
    /\ txRequests[s] > 0
    /\ txTimers < MaxTimers
    /\ txRequests' = [txRequests EXCEPT ![s] = @ - 1]
    /\ txc' = [txc EXCEPT !.message = TxErrorMessage(error)]
    /\ txTimers' = txTimers + 1
    /\ txLast' = [NoTxHandler EXCEPT !.op = "loadFailed", !.pager = Pager(txc')]
    /\ UNCHANGED <<sessionVars, prodVars, dashVars, catVars>>

\* a setTimeout callback of TransactionComponent.showMessage runs
TxMessageTimeout ==
    /\ txTimers > 0
    /\ txTimers' = txTimers - 1
    /\ txc' = [txc EXCEPT !.message = Str("")]
    /\ txLast' = [NoTxHandler EXCEPT !.op = "timeout", !.pager = Pager(txc')]
    /\ UNCHANGED <<txRequests, sessionVars, prodVars, dashVars, catVars>>

NextTransactions ==
    \/ TxNgOnInit
    \/ \E input \in SearchInputs : TxHandleSearch(input)
    \/ \E page \in PageInputs : TxPageClick(page)
    \/ \E s \in SearchInputs, res \in TxAnswers : TxLoaded(s, res)
    \/ \E s \in SearchInputs, error \in LoadErrors : TxLoadFailed(s, error)
    \/ TxMessageTimeout

SpecTransactions == Init /\ [][NextTransactions]_vars

----------------------------------------------------------------------------
(* The product view: ProductComponent with its pager *)

\* answers of GET /products/all while the server holds the products held:
\* a body with all of them; a server holding none may leave the field out
ProdAnswers(held) ==
    {[products |-> Arr(held)]}
    \cup (IF held = <<>> THEN {[products |-> JSUndefined]} ELSE {})

\* the next callback of fetchProducts without its console.log line
fetchProductsNext_NoLog(c, res) ==
    LET products == Or(res.products, Arr(<<>>)).val IN
    [threw |-> FALSE,
     c |-> [c EXCEPT !.totalPages = MathCeilDiv(Len(products), itemsPerPage),
                     !.products = slice(products,
                                        (c.currentPage - 1) * itemsPerPage,
                                        c.currentPage * itemsPerPage)]]

\* the next callback of fetchProducts: whether it threw, and the component
\* it leaves.  products[0] of an empty array is undefined, and reading
\* .imageUrl of undefined throws a TypeError before any field is assigned.
fetchProductsNext(c, res) ==
    LET products == Or(res.products, Arr(<<>>)).val IN
    IF Len(products) = 0
    THEN [threw |-> TRUE, c |-> c]
    ELSE [threw |-> FALSE,
          c |-> [c EXCEPT !.totalPages = MathCeilDiv(Len(products), itemsPerPage),
                          !.products = slice(products,
                                             (c.currentPage - 1) * itemsPerPage,
                                             c.currentPage * itemsPerPage)]]

\* error?.error?.message || error?.message || 'Unable to edit category' + error
ProdLoadErrorMessage(error) ==
    Or(Or(error.error.message, error.message),
       Str("Unable to edit category[object Object]"))

\* error?.error?.message || error?.message || 'Unable to Delete product' + error
ProdDeleteErrorMessage(error) ==
    Or(Or(error.error.message, error.message),
       Str("Unable to Delete product[object Object]"))

\* the sequence without the element x
Without_(seq, x) == SelectSeq(seq, LAMBDA y : y # x)

\* size of the largest collection the product server holds at the start
MaxProducts == 12
\* deleteProduct requests in flight at once
MaxDeletes == 1

\* rows of the displayed page whose delete button the user presses: the
\* last one
DeleteTargets(c) ==
    IF c.products = <<>> THEN {} ELSE {c.products[Len(c.products)]}

\* bodies of a DELETE /products/delete/:id the server answered
DeleteStatuses == {200, 404}

\* ProductComponent.ngOnInit
ProdNgOnInit ==
    /\ ~prodc.started
    /\ prodLoads < MaxPending
    /\ prodc' = [prodc EXCEPT !.started = TRUE]
    /\ prodLoads' = prodLoads + 1
    /\ prodLast' = [NoProdHandler EXCEPT !.op = "ngOnInit", !.pager = Pager(prodc')]
    /\ UNCHANGED <<catalog, prodDeletes, prodTimers, sessionVars, txVars, dashVars, catVars>>

\* a click on the pager of the view, asking for page: the pager's
\* onPageChange and, for each value it emits, ProductComponent.onPageChange
ProdPageClick(page) ==
    LET emitted == onPageChange(page, prodc.totalPages) IN
    /\ prodc.started
    /\ IF emitted # <<>>
       THEN /\ prodLoads < MaxPending
            /\ prodc' = [prodc EXCEPT !.currentPage = emitted[1]]
            /\ prodLoads' = prodLoads + 1
       ELSE UNCHANGED <<prodc, prodLoads>>
    /\ prodLast' = [NoProdHandler EXCEPT !.op = "pageClick", !.page = page,
                                         !.emitted = emitted, !.pager = Pager(prodc')]
    /\ UNCHANGED <<catalog, prodDeletes, prodTimers, sessionVars, txVars, dashVars, catVars>>

\* the answer to a getAllProducts request arrives: the next callback
ProdLoaded(res) ==
    LET out == fetchProductsNext(prodc, res) IN
    /\ prodLoads > 0
    /\ prodLoads' = prodLoads - 1
    /\ prodc' = out.c
    /\ prodLast' = [NoProdHandler EXCEPT !.op = "loaded",
                                         !.items = Or(res.products, Arr(<<>>)).val,
                                         !.threw = out.threw,
                                         !.pager = Pager(prodc')]
    /\ UNCHANGED <<catalog, prodDeletes, prodTimers, sessionVars, txVars, dashVars, catVars>>

\* a getAllProducts request fails: the error callback and showMessage
ProdLoadFailed(error) ==
    /\ prodLoads > 0
    /\ prodTimers < MaxTimers
    /\ prodLoads' = prodLoads - 1
    /\ prodc' = [prodc EXCEPT !.message = ProdLoadErrorMessage(error)]
    /\ prodTimers' = prodTimers + 1
    /\ prodLast' = [NoProdHandler EXCEPT !.op = "loadFailed", !.pager = Pager(prodc')]
    /\ UNCHANGED <<catalog, prodDeletes, sessionVars, txVars, dashVars, catVars>>

\* ProductComponent.handleProductDelete up to the request; confirmed is
\* the answer of window.confirm
ProdHandleDelete(productId, confirmed) ==
    /\ prodc.started
    /\ IF confirmed
       THEN /\ Cardinality(prodDeletes) < MaxDeletes
            /\ productId \notin prodDeletes
            /\ prodDeletes' = prodDeletes \cup {productId}
       ELSE UNCHANGED prodDeletes
    /\ prodLast' = [NoProdHandler EXCEPT !.op = "handleDelete", !.pager = Pager(prodc)]
    /\ UNCHANGED <<prodc, catalog, prodLoads, prodTimers, sessionVars, txVars, dashVars, catVars>>

\* the server answers a deleteProduct request with a body: with status 200
\* it has removed the product, and the next callback shows the message and
\* calls fetchProducts; with another status the callback does nothing
ProdDeleteAnswered(productId, status) ==
    /\ productId \in prodDeletes
    /\ prodDeletes' = prodDeletes \ {productId}
    /\ IF status = 200
       THEN /\ prodTimers < MaxTimers
            /\ prodLoads < MaxPending
            /\ catalog' = Without_(catalog, productId)
            /\ prodc' = [prodc EXCEPT !.message = Str("Product deleted successfully")]
            /\ prodTimers' = prodTimers + 1
            /\ prodLoads' = prodLoads + 1
       ELSE UNCHANGED <<catalog, prodc, prodTimers, prodLoads>>
    /\ prodLast' = [NoProdHandler EXCEPT !.op = "deleteAnswered", !.pager = Pager(prodc')]
    /\ UNCHANGED <<sessionVars, txVars, dashVars, catVars>>

\* a deleteProduct request fails: the error callback and showMessage
ProdDeleteFailed(productId, error) ==
    /\ productId \in prodDeletes
    /\ prodTimers < MaxTimers
    /\ prodDeletes' = prodDeletes \ {productId}
    /\ prodc' = [prodc EXCEPT !.message = ProdDeleteErrorMessage(error)]
    /\ prodTimers' = prodTimers + 1
    /\ prodLast' = [NoProdHandler EXCEPT !.op = "deleteFailed", !.pager = Pager(prodc')]
    /\ UNCHANGED <<catalog, prodLoads, sessionVars, txVars, dashVars, catVars>>

\* a setTimeout callback of ProductComponent.showMessage runs
ProdMessageTimeout ==
    /\ prodTimers > 0
    /\ prodTimers' = prodTimers - 1
    /\ prodc' = [prodc EXCEPT !.message = Str("")]
    /\ prodLast' = [NoProdHandler EXCEPT !.op = "timeout", !.pager = Pager(prodc')]
    /\ UNCHANGED <<catalog, prodLoads, prodDeletes, sessionVars, txVars, dashVars, catVars>>

NextProducts ==
    \/ ProdNgOnInit
    \/ \E page \in PageInputs : ProdPageClick(page)
    \/ \E res \in ProdAnswers(catalog) : ProdLoaded(res)
    \/ \E error \in LoadErrors : ProdLoadFailed(error)
    \/ \E id \in DeleteTargets(prodc), confirmed \in BOOLEAN : ProdHandleDelete(id, confirmed)
    \/ \E id \in prodDeletes, status \in DeleteStatuses : ProdDeleteAnswered(id, status)
    \/ \E id \in prodDeletes, error \in LoadErrors : ProdDeleteFailed(id, error)
    \/ ProdMessageTimeout

\* the product view opened on a server holding a collection of any size
InitProducts ==
    /\ SessionInit
    /\ TxInit
    /\ \E n \in 0..MaxProducts : ProdInit(Collection(n))
    /\ DashInit(<<>>)
    /\ zone = UTC
    /\ CatInit(<<>>)

SpecProducts == InitProducts /\ [][NextProducts]_vars

----------------------------------------------------------------------------
(* Claims about the paged lists *)

\* k is the least number of pages of size s that hold n records
IsCeil(k, n, s) == k * s >= n /\ (k = 0 \/ (k - 1) * s < n)

\* the records of items on page p, in the order of items
Window(items, p) ==
    LET lo == (p - 1) * itemsPerPage
        hi == p * itemsPerPage
        n == Cardinality({i \in 1..Len(items) : lo < i /\ i <= hi})
    IN [k \in 1..n |-> items[lo + k]]

(* C12: after every load that got an answer, in the transaction view and   *)
(* in the product view, totalPages is ceil(n / itemsPerPage) for the n      *)
(* records returned; for an empty or missing collection totalPages is 0    *)
(* and the displayed page is empty, and the load raises no error.          *)
C12_TotalPagesAfterLoad ==
    /\ txLast.op = "loaded" =>
          /\ IsCeil(txc.totalPages, Len(txLast.items), itemsPerPage)
          /\ txLast.items = <<>> => txc.totalPages = 0 /\ txc.transactions = <<>>
    /\ prodLast.op = "loaded" =>
          /\ ~prodLast.threw
          /\ IsCeil(prodc.totalPages, Len(prodLast.items), itemsPerPage)
          /\ prodLast.items = <<>> => prodc.totalPages = 0 /\ prodc.products = <<>>

C14_PageLengths ==
    (txLast.op = "loaded" /\ 1 <= txc.currentPage /\ txc.currentPage <= txc.totalPages) =>
        Len(txc.transactions) =
            IF txc.currentPage < txc.totalPages
            THEN itemsPerPage
            ELSE Len(txLast.items) - itemsPerPage * (txc.totalPages - 1)

\* a full page that is not the last one, of a collection whose last page is short
C14_Witness ==
    /\ txLast.op = "loaded"
    /\ txc.currentPage = 1
    /\ txc.totalPages = 2
    /\ Len(txLast.items) = 13
    /\ Len(txc.transactions) = itemsPerPage

(* C15: when a load gets its answer while currentPage is beyond the        *)
(* totalPages of the collection just returned (a stale page after the list *)
(* shrank), the displayed page becomes empty and no error is raised.       *)
C15_StalePageIsEmpty ==
    /\ (txLast.op = "loaded"
          /\ txc.currentPage > MathCeilDiv(Len(txLast.items), itemsPerPage)) =>
          txc.transactions = <<>>
    /\ (prodLast.op = "loaded"
          /\ prodc.currentPage > MathCeilDiv(Len(prodLast.items), itemsPerPage)) =>
          ~prodLast.threw /\ prodc.products = <<>>

(* C16: the views keep the page in range: whatever pages were selected,    *)
(* searches made, products deleted and lists reloaded, after a load has    *)
(* completed 1 <= currentPage <= max(1, totalPages).                       *)
C16_PageClamped ==
    /\ txLast.op = "loaded" =>
          1 <= txc.currentPage /\ txc.currentPage <= Max(1, txc.totalPages)
    /\ (prodLast.op = "loaded" /\ ~prodLast.threw) =>
          1 <= prodc.currentPage /\ prodc.currentPage <= Max(1, prodc.totalPages)

(* C17: a click on the pager asking for page emits pageChange(page) if and *)
(* only if 1 <= page <= totalPages; otherwise nothing is emitted and the   *)
(* parent's currentPage, its displayed items and its requests stay as they *)
(* were.                                                                   *)
C17_EmitsIffInRange ==
    [][ txLast'.op = "pageClick" =>
          /\ txLast'.emitted \in {<<>>, <<txLast'.page>>}
          /\ txLast'.emitted = <<txLast'.page>>
                <=> (1 <= txLast'.page /\ txLast'.page <= txc.totalPages)
          /\ txLast'.emitted = <<>> => txc' = txc /\ txRequests' = txRequests
          /\ txLast'.emitted # <<>> => txc'.currentPage = txLast'.page ]_vars

\* a click one past the last of several pages: nothing emitted
C17_Witness ==
    /\ txLast.op = "pageClick"
    /\ txc.totalPages >= 2
    /\ txLast.page = txc.totalPages + 1
    /\ txLast.emitted = <<>>

(* C18: for every totalPages >= 0 the pager's pageNumbers is the ascending *)
(* list 1, 2, ..., totalPages, and the empty list when totalPages is 0.    *)
(* Stated of the pager the transaction view renders and of the getter on   *)
(* every page count up to MaxItems.                                        *)
C18_PageNumbers ==
    LET Ascending1toN(pn, n) ==
            /\ Len(pn) = n
            /\ \A i \in 1..n : pn[i] = i
            /\ \A i, j \in 1..n : i < j => pn[i] < pn[j]
            /\ n = 0 => pn = <<>>
    IN /\ Ascending1toN(txLast.pager.pageNumbers, txc.totalPages)
       /\ \A n \in 0..MaxItems : Ascending1toN(pageNumbers(n), n)

\* three buttons rendered after a load of three pages
C18_Witness ==
    /\ txLast.op = "loaded"
    /\ txc.totalPages = 3
    /\ txLast.pager.pageNumbers = <<1, 2, 3>>

----------------------------------------------------------------------------
(* The dashboard: DashboardComponent and its chart projections *)

\* most transactions the server returns to the dashboard
MaxRecords == 3

\* transaction records as far as the charts read them; prices are whole
\* amounts
TransactionTypes == {"SELL", "PURCHASE"}
Prices == {0, 5, 10, 20}
Records == [transactionType : TransactionTypes, totalPrice : Prices]
Ledgers == UNION {[1..n -> Records] : n \in 0..MaxRecords}

\* a JavaScript object with string keys and number values: its keys in
\* insertion order, the order Object.keys lists them in, and their values
EmptyObject == [keys |-> <<>>, vals |-> <<>>]
HasKey(obj, key) == \E i \in 1..Len(obj.keys) : obj.keys[i] = key
IndexOfKey(obj, key) == CHOOSE i \in 1..Len(obj.keys) : obj.keys[i] = key
\* obj[key] || 0: 0 for a missing key and for a stored 0
GetOrZero(obj, key) ==
    IF HasKey(obj, key) /\ obj.vals[IndexOfKey(obj, key)] # 0
    THEN obj.vals[IndexOfKey(obj, key)]
    ELSE 0
\* obj[key] = value
SetKey(obj, key, value) ==
    IF HasKey(obj, key)
    THEN [obj EXCEPT !.vals[IndexOfKey(obj, key)] = value]
    ELSE [keys |-> Append(obj.keys, key), vals |-> Append(obj.vals, value)]

\* a loop body that stores 1 instead of counting up
chartStep_CountOnce(acc, transaction) ==
    LET type == transaction.transactionType IN
    [typeCounts |-> SetKey(acc.typeCounts, type, 1),
     amountByType |-> SetKey(acc.amountByType, type,
                             GetOrZero(acc.amountByType, type) + transaction.totalPrice)]

\* a loop body that stores the price instead of adding it
chartStep_LastPrice(acc, transaction) ==
    LET type == transaction.transactionType IN
    [typeCounts |-> SetKey(acc.typeCounts, type, GetOrZero(acc.typeCounts, type) + 1),
     amountByType |-> SetKey(acc.amountByType, type, transaction.totalPrice)]

\* the body of the forEach of processChartData, on the two running objects
chartStep(acc, transaction) ==
    LET type == transaction.transactionType IN
    [typeCounts |-> SetKey(acc.typeCounts, type, GetOrZero(acc.typeCounts, type) + 1),
     amountByType |-> SetKey(acc.amountByType, type,
                             GetOrZero(acc.amountByType, type) + transaction.totalPrice)]

\* this.transactions.forEach(...) from the i-th transaction on
RECURSIVE chartForEach(_, _, _)
chartForEach(transactions, i, acc) ==
    IF i > Len(transactions)
    THEN acc
    ELSE chartForEach(transactions, i + 1, chartStep(acc, transactions[i]))

\* a series that always starts with an entry for the total
chartSeries_WithTotal(obj) ==
    <<[name |-> "TOTAL", value |-> Len(obj.keys)]>>
    \o [i \in 1..Len(obj.keys) |-> [name |-> obj.keys[i], value |-> obj.vals[i]]]

\* Object.keys(obj).map(type => ({ name: type, value: obj[type] }))
chartSeries(obj) ==
    [i \in 1..Len(obj.keys) |-> [name |-> obj.keys[i], value |-> obj.vals[i]]]

\* DashboardComponent.processChartData: whether it threw, and the
\* component it leaves.  forEach of undefined throws a TypeError.
processChartData(c) ==
    IF c.transactions.type # "array"
    THEN [threw |-> TRUE, c |-> c]
    ELSE LET acc == chartForEach(c.transactions.val, 1,
                                 [typeCounts |-> EmptyObject, amountByType |-> EmptyObject])
         IN [threw |-> FALSE,
             c |-> [c EXCEPT !.transactionTypeData = chartSeries(acc.typeCounts),
                             !.transactionAmountData = chartSeries(acc.amountByType)]]

\* answers of GET /transactions/all to the dashboard while the server
\* holds the transactions held; a server holding none may leave the field out
DashAnswers(held) ==
    {[transactions |-> Arr(held)]}
    \cup (IF held = <<>> THEN {[transactions |-> JSUndefined]} ELSE {})

\* DashboardComponent.ngOnInit
DashNgOnInit ==
    /\ ~dash.started
    /\ dashLoads < MaxPending
    /\ dash' = [dash EXCEPT !.started = TRUE]
    /\ dashLoads' = dashLoads + 1
    /\ dashLast' = "ngOnInit"
    /\ UNCHANGED <<ledger, dashMonthLoads, zone, sessionVars, txVars, prodVars, catVars>>

\* the answer to a request of loadTransactions arrives: the callback
\* stores the transactions and calls processChartData
DashLoaded(data) ==
    LET out == processChartData([dash EXCEPT !.transactions = data.transactions]) IN
    /\ dashLoads > 0
    /\ dashLoads' = dashLoads - 1
    /\ dash' = out.c
    /\ dashLast' = IF out.threw THEN "threw" ELSE "loaded"
    /\ UNCHANGED <<ledger, dashMonthLoads, zone, sessionVars, txVars, prodVars, catVars>>

\* a request of loadTransactions fails: subscribe was given no error
\* callback, so nothing of the component changes
DashLoadFailed ==
    /\ dashLoads > 0
    /\ dashLoads' = dashLoads - 1
    /\ dashLast' = "loadFailed"
    /\ UNCHANGED <<dash, ledger, dashMonthLoads, zone, sessionVars, txVars, prodVars, catVars>>

NextDashboard ==
    \/ DashNgOnInit
    \/ \E data \in DashAnswers(ledger) : DashLoaded(data)
    \/ DashLoadFailed

\* the dashboard opened on a server holding any list of transactions
InitDashboard ==
    /\ SessionInit
    /\ TxInit
    /\ ProdInit(<<>>)
    /\ \E held \in Ledgers : DashInit(held)
    /\ zone = UTC
    /\ CatInit(<<>>)

SpecDashboard == InitDashboard /\ [][NextDashboard]_vars

----------------------------------------------------------------------------
(* Claims about the chart projections *)

\* positions of the transactions of a type
OfType(transactions, type) ==
    {i \in 1..Len(transactions) : transactions[i].transactionType = type}

\* the sum of totalPrice over a set of positions, taken in no particular order
RECURSIVE TotalOver(_, _)
TotalOver(transactions, positions) ==
    IF positions = {}
    THEN 0
    ELSE LET i == CHOOSE j \in positions : TRUE
         IN transactions[i].totalPrice + TotalOver(transactions, positions \ {i})

\* a series of { name, value } read as a mapping: its names without
\* repetition, and the value of each
IsMapping(series) ==
    \A i, j \in 1..Len(series) : series[i].name = series[j].name => i = j
Names(series) == {series[i].name : i \in 1..Len(series)}
ValueOf(series, name) ==
    series[CHOOSE i \in 1..Len(series) : series[i].name = name].value

\* the sum of the values of a series
RECURSIVE SumValues(_, _)
SumValues(series, i) ==
    IF i > Len(series) THEN 0 ELSE series[i].value + SumValues(series, i + 1)

\* the transactions in the order perm puts them in
Permuted(transactions, perm) == [i \in 1..Len(transactions) |-> transactions[perm[i]]]

(* C19: after the dashboard has loaded a list of transactions, the by-type *)
(* count series maps each transactionType occurring in the list to the     *)
(* number of transactions of that type, has no other name, and its counts  *)
(* add up to the length of the list.                                       *)
C19_CountByType ==
    dashLast = "loaded" =>
        LET txs == dash.transactions.val
            series == dash.transactionTypeData
        IN /\ IsMapping(series)
           /\ Names(series) = {txs[i].transactionType : i \in 1..Len(txs)}
           /\ \A t \in Names(series) : ValueOf(series, t) = Cardinality(OfType(txs, t))
           /\ SumValues(series, 1) = Len(txs)

\* SELL, SELL, PURCHASE gives SELL 2 and PURCHASE 1
C19_Witness ==
    /\ dashLast = "loaded"
    /\ Len(dash.transactions.val) = 3
    /\ [i \in 1..3 |-> dash.transactions.val[i].transactionType] = <<"SELL", "SELL", "PURCHASE">>
    /\ dash.transactionTypeData = <<[name |-> "SELL", value |-> 2],
                                    [name |-> "PURCHASE", value |-> 1]>>

(* C20: after the dashboard has loaded a list of transactions, the by-type *)
(* amount series maps each transactionType occurring in the list to the    *)
(* sum of totalPrice over the transactions of that type, and the mapping   *)
(* is the same for the list in any other order.  Prices are whole amounts. *)
C20_AmountByType ==
    dashLast = "loaded" =>
        LET txs == dash.transactions.val
            series == dash.transactionAmountData
        IN /\ IsMapping(series)
           /\ Names(series) = {txs[i].transactionType : i \in 1..Len(txs)}
           /\ \A t \in Names(series) : ValueOf(series, t) = TotalOver(txs, OfType(txs, t))
           /\ \A perm \in Permutations(1..Len(txs)) :
                 LET other == processChartData(
                                 [dash EXCEPT !.transactions = Arr(Permuted(txs, perm))]
                              ).c.transactionAmountData
                 IN /\ IsMapping(other)
                    /\ Names(other) = Names(series)
                    /\ \A t \in Names(series) : ValueOf(other, t) = ValueOf(series, t)

\* SELL 10, SELL 20, PURCHASE 5 gives SELL 30 and PURCHASE 5
C20_Witness ==
    /\ dashLast = "loaded"
    /\ dash.transactions.val = <<[transactionType |-> "SELL", totalPrice |-> 10],
                                 [transactionType |-> "SELL", totalPrice |-> 20],
                                 [transactionType |-> "PURCHASE", totalPrice |-> 5]>>
    /\ dash.transactionAmountData = <<[name |-> "SELL", value |-> 30],
                                      [name |-> "PURCHASE", value |-> 5]>>

----------------------------------------------------------------------------
(* The dashboard's monthly chart: loadMonthlyData and processMonthlyData *)

\* createdAt of a record: an instant, given by its calendar fields in UTC
\* (all in 2024)
Stamp(month, date, hours) == [month |-> month, date |-> date, hours |-> hours]

\* the records of the ledgers the monthly chart is run on: two on the
\* same day of March, one of them in the first hours of the month, one on
\* another day of March, and one in April
DatedRecords ==
    { [transactionType |-> "SELL", totalPrice |-> 10, createdAt |-> Stamp(3, 1, 12)],
      [transactionType |-> "SELL", totalPrice |-> 20, createdAt |-> Stamp(3, 1, 2)],
      [transactionType |-> "PURCHASE", totalPrice |-> 5, createdAt |-> Stamp(3, 15, 12)],
      [transactionType |-> "PURCHASE", totalPrice |-> 5, createdAt |-> Stamp(4, 15, 12)] }
DatedLedgers == UNION {[1..n -> DatedRecords] : n \in 0..MaxRecords}

\* days of a month of 2024
DaysIn(month) ==
    CASE month = 2 -> 29
      [] month \in {4, 6, 9, 11} -> 30
      [] OTHER -> 31

\* new Date(createdAt).getDate() in a browser z hours ahead of UTC: the
\* day of the month of the instant in local time
getDate(createdAt, z) ==
    LET hours == createdAt.hours + z IN
    IF hours < 0
    THEN IF createdAt.date = 1
         THEN DaysIn(IF createdAt.month = 1 THEN 12 ELSE createdAt.month - 1)
         ELSE createdAt.date - 1
    ELSE IF hours >= 24
         THEN IF createdAt.date = DaysIn(createdAt.month) THEN 1 ELSE createdAt.date + 1
         ELSE createdAt.date

\* a loop body that stores the price instead of adding it
dailyStep_LastPrice(dailyTotals, transaction, z) ==
    LET date == getDate(transaction.createdAt, z) IN
    SetKey(dailyTotals, date, transaction.totalPrice)

\* the body of the forEach of processMonthlyData, on the running object;
\* the key is the decimal numeral of the day, written here as the number
dailyStep(dailyTotals, transaction, z) ==
    LET date == getDate(transaction.createdAt, z) IN
    SetKey(dailyTotals, date, GetOrZero(dailyTotals, date) + transaction.totalPrice)

\* transactions.forEach(...) from the i-th transaction on
RECURSIVE dailyForEach(_, _, _, _)
dailyForEach(transactions, i, dailyTotals, z) ==
    IF i > Len(transactions)
    THEN dailyTotals
    ELSE dailyForEach(transactions, i + 1, dailyStep(dailyTotals, transactions[i], z), z)

\* Object.keys of an object whose keys are numerals: in ascending order of
\* the numbers, whatever the order of insertion
NumeralKeys(obj) ==
    LET present == {obj.keys[i] : i \in 1..Len(obj.keys)} IN
    [i \in 1..Len(obj.keys) |->
        CHOOSE key \in present : Cardinality({other \in present : other < key}) = i - 1]

\* Object.keys(dailyTotals).map(day => ({ name: `Dia ${day}`, value: dailyTotals[day] }))
dailySeries(obj) ==
    [i \in 1..Len(obj.keys) |->
        [name |-> <<"Dia", NumeralKeys(obj)[i]>>,
         value |-> obj.vals[IndexOfKey(obj, NumeralKeys(obj)[i])]]]

\* DashboardComponent.processMonthlyData in a browser of time zone z:
\* whether it threw, and the component it leaves
processMonthlyData(c, transactions, z) ==
    IF transactions.type # "array"
    THEN [threw |-> TRUE, c |-> c]
    ELSE [threw |-> FALSE,
          c |-> [c EXCEPT !.monthlyTransactionData =
                             dailySeries(dailyForEach(transactions.val, 1, EmptyObject, z))]]

\* answers of GET /transactions/by-month-year for a month while the server
\* holds the transactions held; for a month without any the field may be
\* left out
MonthAnswers(held, month) ==
    LET ofMonth == SelectSeq(held, LAMBDA r : r.createdAt.month = month) IN
    {[transactions |-> Arr(ofMonth)]}
    \cup (IF ofMonth = <<>> THEN {[transactions |-> JSUndefined]} ELSE {})

DashOutstanding == dashLoads + dashMonthLoads[3] + dashMonthLoads[4]

\* the user picks a month in the select bound to selectedMonth
DashSelectMonth(month) ==
    /\ dash.started
    /\ dash' = [dash EXCEPT !.selectedMonth = month]
    /\ dashLast' = "selectMonth"
    /\ UNCHANGED <<ledger, dashLoads, dashMonthLoads, zone, sessionVars, txVars, prodVars, catVars>>

\* the user picks a year in the select bound to selectedYear
DashSelectYear(year) ==
    /\ dash.started
    /\ dash' = [dash EXCEPT !.selectedYear = year]
    /\ dashLast' = "selectYear"
    /\ UNCHANGED <<ledger, dashLoads, dashMonthLoads, zone, sessionVars, txVars, prodVars, catVars>>

\* DashboardComponent.loadMonthlyData up to the request
DashLoadMonthlyData ==
    /\ dash.started
    /\ IF dash.selectedMonth = "" \/ dash.selectedYear = ""
       THEN /\ dashLast' = "monthlyNotAsked"
            /\ UNCHANGED dashMonthLoads
       ELSE /\ DashOutstanding < MaxPending
            /\ dashMonthLoads' = [dashMonthLoads EXCEPT ![ParseInt(dash.selectedMonth)] = @ + 1]
            /\ dashLast' = "monthlyAsked"
    /\ UNCHANGED <<dash, ledger, dashLoads, zone, sessionVars, txVars, prodVars, catVars>>

\* the answer to a request of loadMonthlyData for a month arrives: the
\* callback stores the transactions, calls processChartData and then
\* processMonthlyData
DashMonthlyLoaded(month, data) ==
    LET charts == processChartData([dash EXCEPT !.transactions = data.transactions])
        daily == processMonthlyData(charts.c, data.transactions, zone)
    IN /\ dashMonthLoads[month] > 0
       /\ dashMonthLoads' = [dashMonthLoads EXCEPT ![month] = @ - 1]
       /\ dash' = IF charts.threw THEN charts.c ELSE daily.c
       /\ dashLast' = IF charts.threw \/ daily.threw THEN "threw" ELSE "monthlyLoaded"
       /\ UNCHANGED <<ledger, dashLoads, zone, sessionVars, txVars, prodVars, catVars>>

\* a request of loadMonthlyData fails: subscribe was given no error
\* callback, so nothing of the component changes
DashMonthlyLoadFailed(month) ==
    /\ dashMonthLoads[month] > 0
    /\ dashMonthLoads' = [dashMonthLoads EXCEPT ![month] = @ - 1]
    /\ dashLast' = "monthlyLoadFailed"
    /\ UNCHANGED <<dash, ledger, dashLoads, zone, sessionVars, txVars, prodVars, catVars>>

NextMonthly ==
    \/ NextDashboard
    \/ \E month \in Months : DashSelectMonth(month)
    \/ \E year \in Years : DashSelectYear(year)
    \/ DashLoadMonthlyData
    \/ \E month \in DOMAIN dashMonthLoads :
          \E data \in MonthAnswers(ledger, month) : DashMonthlyLoaded(month, data)
    \/ \E month \in DOMAIN dashMonthLoads : DashMonthlyLoadFailed(month)

\* the dashboard opened in a browser of any of the time zones, on a server
\* holding any list of dated transactions
InitMonthly ==
    /\ SessionInit
    /\ TxInit
    /\ ProdInit(<<>>)
    /\ \E held \in DatedLedgers : DashInit(held)
    /\ zone \in Zones
    /\ CatInit(<<>>)

SpecMonthly == InitMonthly /\ [][NextMonthly]_vars

----------------------------------------------------------------------------
(* Claims about the monthly chart and about all three projections *)

\* positions of the transactions whose createdAt falls on a day of the
\* month in the browser's time zone
OnDay(transactions, day) ==
    {i \in 1..Len(transactions) : getDate(transactions[i].createdAt, zone) = day}

(* C21: after the dashboard has loaded the transactions of the selected    *)
(* month, the daily series maps each day of the month on which some        *)
(* record's createdAt falls (in the browser's time zone) to the sum of     *)
(* totalPrice of the records of that day, and has no entry for any other   *)
(* day.                                                                    *)
C21_SumByDay ==
    dashLast = "monthlyLoaded" =>
        LET txs == dash.transactions.val
            series == dash.monthlyTransactionData
        IN /\ IsMapping(series)
           /\ Names(series) =
                 {<<"Dia", getDate(txs[i].createdAt, zone)>> : i \in 1..Len(txs)}
           /\ \A day \in 1..31 :
                 OnDay(txs, day) # {} =>
                     ValueOf(series, <<"Dia", day>>) = TotalOver(txs, OnDay(txs, day))

\* days 1, 1 and 15 with prices 10, 20 and 5 give day 1: 30 and day 15: 5
C21_Witness ==
    /\ dashLast = "monthlyLoaded"
    /\ zone = UTC
    /\ Len(dash.transactions.val) = 3
    /\ [i \in 1..3 |-> dash.transactions.val[i].createdAt.date] = <<1, 1, 15>>
    /\ [i \in 1..3 |-> dash.transactions.val[i].totalPrice] = <<10, 20, 5>>
    /\ dash.monthlyTransactionData = <<[name |-> <<"Dia", 1>>, value |-> 30],
                                       [name |-> <<"Dia", 15>>, value |-> 5]>>

(* C22: when a load of the dashboard has run the aggregations on an empty  *)
(* list, each projection it computed is empty; and after any load the list *)
(* the component holds is, record for record, the list the server sent:    *)
(* all its transactions after the initial load, those of one month after a *)
(* monthly load.                                                           *)
C22_EmptyAndUnchanged ==
    /\ dashLast = "loaded" =>
          /\ dash.transactions = Arr(ledger)
          /\ ledger = <<>> =>
                dash.transactionTypeData = <<>> /\ dash.transactionAmountData = <<>>
    /\ dashLast = "monthlyLoaded" =>
          /\ \E month \in DOMAIN dashMonthLoads :
                dash.transactions = Arr(SelectSeq(ledger, LAMBDA r : r.createdAt.month = month))
          /\ dash.transactions.val = <<>> =>
                /\ dash.transactionTypeData = <<>>
                /\ dash.transactionAmountData = <<>>
                /\ dash.monthlyTransactionData = <<>>

\* a month without transactions loaded from a server that holds some
C22_Witness ==
    /\ dashLast = "monthlyLoaded"
    /\ ledger # <<>>
    /\ dash.transactions = Arr(<<>>)
    /\ dash.monthlyTransactionData = <<>>

----------------------------------------------------------------------------
(* Claims about the application shell, the login form and the guard *)

(* C23: a freshly created AppComponent, as the application has one from    *)
(* its start, has the title 'ims-angular'.                                 *)
C23_TitleImsAngular ==
    lastOp = "init" => NewAppComponent.title = "ims-angular"

\* the steps of handleSubmit that are not a login with status 200
LoginNotDone == {"submitRejected", "submit", "loginIgnored", "loginFailed"}

(* C24: a step of LoginComponent.handleSubmit that is not the handling of  *)
(* a response with status 200 (an empty form field, the request being      *)
(* sent, a response with another status, a failed request) leaves the      *)
(* stored token and role exactly as they were and issues no navigation to  *)
(* '/dashboard'; a step of handleSubmit that changes the store is the      *)
(* handling of a status-200 response.                                      *)
C24_WritesOnlyOn200 ==
    [][ /\ lastOp' \in LoginNotDone =>
              /\ storage' = storage
              /\ \A i \in 1..Len(navigations') : navigations'[i].commands # "/dashboard"
        /\ (lastOp' \in LoginNotDone \cup {"loginStored"} /\ storage' # storage) =>
              lastOp' = "loginStored" ]_vars

\* a response with another status arrives while a session is stored,
\* and the session is still there
C24_Witness ==
    /\ lastOp = "loginIgnored"
    /\ before.auth
    /\ TokenStored
    /\ navigations = <<>>

(* C25: AppComponent.logOut leaves an empty store and navigates to         *)
(* '/login'; from an empty store every step other than a login with        *)
(* status 200 leaves the store empty, and every canActivate evaluated on   *)
(* an empty store, for a route with or without requiresAdmin, denies.      *)
C25_DeniedAfterLogOut ==
    [][ /\ lastOp' = "logOut" =>
              /\ storage' = NoEntries
              /\ navigations' = <<Navigate("/login", NoQuery)>>
        /\ (storage = NoEntries /\ lastOp' # "loginStored") => storage' = NoEntries
        /\ (storage' = NoEntries /\ lastOp' = "canActivate") => ~lastGuard'.result ]_vars

\* a signed-in user without the administrator role has pressed the logout
\* button while a login request was still unanswered
C25_Witness ==
    /\ lastOp = "logOut"
    /\ before = [auth |-> TRUE, admin |-> FALSE]
    /\ storage = NoEntries
    /\ pending > 0
    /\ navigations = <<Navigate("/login", NoQuery)>>

\* the URL a navigation of the session core leads to
TargetOf(navigation) ==
    CASE navigation.commands = "/dashboard" -> <<"dashboard">>
      [] navigation.commands = "/login" -> <<"login">>

(* C27: when the guard has denied a navigation to URL u, redirecting to    *)
(* the login view with returnUrl = u, and the next step is a successful    *)
(* login, that login navigates to u.                                       *)
C27_LoginResumes ==
    [][ (lastOp = "canActivate" /\ ~lastGuard.result /\ lastOp' = "loginStored") =>
            /\ Len(navigations') = 1
            /\ TargetOf(navigations'[1]) = lastGuard.url ]_vars

----------------------------------------------------------------------------
(* The category view: CategoryComponent *)

\* categories the server holds at most
MaxCategories == 1
\* requests of the category view in flight at once
MaxCatRequests == 1

\* the id of the i-th category
CategoryId(i) == IF i = 1 THEN "c1" ELSE IF i = 2 THEN "c2" ELSE "c3"
CategoryIds == {CategoryId(i) : i \in 1..MaxCategories}
\* what the user types into the name field, and the name categories have
TypedNames == {"", "x"}
Category(id) == [id |-> id, name |-> "x"]

\* the lists of categories a server can hold: no id twice
Shelves ==
    {s \in UNION {[1..n -> {Category(id) : id \in CategoryIds}] : n \in 0..MaxCategories} :
        \A i, j \in 1..Len(s) : s[i].id = s[j].id => i = j}

\* the requests the view sends
GetRequest == [kind |-> "getAllCategory", id |-> "", name |-> ""]
CreateRequest(name) == [kind |-> "createCategory", id |-> "", name |-> name]
UpdateRequest(id, name) == [kind |-> "updateCategory", id |-> id, name |-> name]
DeleteRequest(id) == [kind |-> "deleteCategory", id |-> id, name |-> ""]

\* the sequence without its i-th element
RemoveAt(seq, i) == SubSeq(seq, 1, i - 1) \o SubSeq(seq, i + 1, Len(seq))

\* status of the body the server answers with
CatStatuses == {200, 400}

\* error?.error?.message || error?.message || <text of the handler> + error
CatErrorMessage(kind, error) ==
    Or(Or(error.error.message, error.message),
       CASE kind = "getAllCategory" -> Str("No se pudo obtener todas las categorias[object Object]")
         [] kind = "createCategory" -> Str("No se pudo guardar la categoria[object Object]")
         [] kind = "updateCategory" -> Str("No se pudo editar la categoria[object Object]")
         [] kind = "deleteCategory" -> Str("No se pudo eliminar la categoria[object Object]"))

\* CategoryComponent.editCategory: the requests it sends
editCategorySends(c) ==
    IF ~Truthy(c.editingCategoryId) \/ ~Truthy(Str(c.categoryName))
    THEN <<>>
    ELSE <<UpdateRequest(c.editingCategoryId.val, c.categoryName)>>

\* CategoryComponent.ngOnInit
CatNgOnInit ==
    /\ ~catc.started
    /\ Len(catRequests) < MaxCatRequests
    /\ catc' = [catc EXCEPT !.started = TRUE]
    /\ catRequests' = Append(catRequests, GetRequest)
    /\ catLast' = [NoCatHandler EXCEPT !.op = "ngOnInit"]
    /\ UNCHANGED <<shelf, catTimers, sessionVars, txVars, prodVars, dashVars>>

\* the user types name into the field bound to categoryName
CatTypeName(name) ==
    /\ catc.started
    /\ catc' = [catc EXCEPT !.categoryName = name]
    /\ catLast' = [NoCatHandler EXCEPT !.op = "typeName"]
    /\ UNCHANGED <<shelf, catRequests, catTimers, sessionVars, txVars, prodVars, dashVars>>

\* CategoryComponent.addCategory up to the request
CatAddCategory ==
    /\ catc.started
    /\ IF ~Truthy(Str(catc.categoryName))
       THEN /\ catTimers < MaxTimers
            /\ catc' = [catc EXCEPT !.message = Str("El nombre de la categoria es obligatorio")]
            /\ catTimers' = catTimers + 1
            /\ UNCHANGED catRequests
            /\ catLast' = [NoCatHandler EXCEPT !.op = "addCategory"]
       ELSE /\ Len(catRequests) < MaxCatRequests
            /\ catRequests' = Append(catRequests, CreateRequest(catc.categoryName))
            /\ UNCHANGED <<catc, catTimers>>
            /\ catLast' = [NoCatHandler EXCEPT !.op = "addCategory",
                                                !.sent = <<CreateRequest(catc.categoryName)>>]
    /\ UNCHANGED <<shelf, sessionVars, txVars, prodVars, dashVars>>

\* CategoryComponent.editCategory up to the request
CatEditCategory ==
    LET sent == editCategorySends(catc) IN
    /\ catc.started
    /\ Len(catRequests) + Len(sent) <= MaxCatRequests
    /\ catRequests' = catRequests \o sent
    /\ catLast' = [NoCatHandler EXCEPT !.op = "editCategory", !.sent = sent,
                                        !.wasEditing = catc.isEditing]
    /\ UNCHANGED <<catc, shelf, catTimers, sessionVars, txVars, prodVars, dashVars>>

\* CategoryComponent.handleEditCategory on a row of the list
CatHandleEditCategory(category) ==
    /\ catc.started
    /\ catc' = [catc EXCEPT !.isEditing = TRUE,
                            !.editingCategoryId = Str(category.id),
                            !.categoryName = category.name]
    /\ catLast' = [NoCatHandler EXCEPT !.op = "handleEditCategory"]
    /\ UNCHANGED <<shelf, catRequests, catTimers, sessionVars, txVars, prodVars, dashVars>>

\* CategoryComponent.handleDeleteCategory up to the request; confirmed is
\* the answer of window.confirm
CatHandleDeleteCategory(categoryId, confirmed) ==
    /\ catc.started
    /\ IF confirmed
       THEN /\ Len(catRequests) < MaxCatRequests
            /\ catRequests' = Append(catRequests, DeleteRequest(categoryId))
            /\ catLast' = [NoCatHandler EXCEPT !.op = "handleDeleteCategory",
                                                !.sent = <<DeleteRequest(categoryId)>>]
       ELSE /\ UNCHANGED catRequests
            /\ catLast' = [NoCatHandler EXCEPT !.op = "handleDeleteCategory"]
    /\ UNCHANGED <<catc, shelf, catTimers, sessionVars, txVars, prodVars, dashVars>>

\* the ids of the categories of a list
IdsOf(categories) == {categories[i].id : i \in 1..Len(categories)}

\* the answer to a getAllCategory request arrives: the next callback of
\* getCategories
CatCategoriesLoaded(i, status) ==
    /\ i \in 1..Len(catRequests)
    /\ catRequests[i].kind = "getAllCategory"
    /\ catRequests' = RemoveAt(catRequests, i)
    /\ catc' = IF status = 200 THEN [catc EXCEPT !.categories = shelf] ELSE catc
    /\ catLast' = [NoCatHandler EXCEPT !.op = "categoriesLoaded"]
    /\ UNCHANGED <<shelf, catTimers, sessionVars, txVars, prodVars, dashVars>>

\* the answer to a createCategory request arrives: with status 200 the
\* server has added the category, and the next callback of addCategory
\* shows the message, empties the field and calls getCategories
CatCreated(i, status) ==
    /\ i \in 1..Len(catRequests)
    /\ catRequests[i].kind = "createCategory"
    /\ IF status = 200
       THEN /\ CategoryIds \ IdsOf(shelf) # {}
            /\ catTimers < MaxTimers
            /\ shelf' = Append(shelf, Category(CHOOSE id \in CategoryIds \ IdsOf(shelf) : TRUE))
            /\ catc' = [catc EXCEPT !.message = Str("Categoria creada correctamente"),
                                    !.categoryName = ""]
            /\ catTimers' = catTimers + 1
            /\ catRequests' = Append(RemoveAt(catRequests, i), GetRequest)
       ELSE /\ catRequests' = RemoveAt(catRequests, i)
            /\ UNCHANGED <<shelf, catc, catTimers>>
    /\ catLast' = [NoCatHandler EXCEPT !.op = "created"]
    /\ UNCHANGED <<sessionVars, txVars, prodVars, dashVars>>

\* the answer to an updateCategory request arrives: with status 200 the
\* server has renamed the category, and the next callback of editCategory
\* shows the message, empties the field, leaves the editing mode and calls
\* getCategories
CatUpdated(i, status) ==
    /\ i \in 1..Len(catRequests)
    /\ catRequests[i].kind = "updateCategory"
    /\ IF status = 200
       THEN /\ catRequests[i].id \in IdsOf(shelf)
            /\ catTimers < MaxTimers
            /\ catc' = [catc EXCEPT !.message = Str("Category updated successfully"),
                                    !.categoryName = "",
                                    !.isEditing = FALSE]
            /\ catTimers' = catTimers + 1
            /\ catRequests' = Append(RemoveAt(catRequests, i), GetRequest)
       ELSE /\ catRequests' = RemoveAt(catRequests, i)
            /\ UNCHANGED <<catc, catTimers>>
    /\ catLast' = [NoCatHandler EXCEPT !.op = "updated"]
    /\ UNCHANGED <<shelf, sessionVars, txVars, prodVars, dashVars>>

\* the answer to a deleteCategory request arrives: with status 200 the
\* server has removed the category, and the next callback of
\* handleDeleteCategory shows the message and calls getCategories
CatDeleted(i, status) ==
    /\ i \in 1..Len(catRequests)
    /\ catRequests[i].kind = "deleteCategory"
    /\ IF status = 200
       THEN /\ catRequests[i].id \in IdsOf(shelf)
            /\ catTimers < MaxTimers
            /\ shelf' = SelectSeq(shelf, LAMBDA c : c.id # catRequests[i].id)
            /\ catc' = [catc EXCEPT !.message = Str("Categoria eliminada correctamente")]
            /\ catTimers' = catTimers + 1
            /\ catRequests' = Append(RemoveAt(catRequests, i), GetRequest)
       ELSE /\ catRequests' = RemoveAt(catRequests, i)
            /\ UNCHANGED <<shelf, catc, catTimers>>
    /\ catLast' = [NoCatHandler EXCEPT !.op = "deleted"]
    /\ UNCHANGED <<sessionVars, txVars, prodVars, dashVars>>

\* a request of the view fails: the error callback of its handler and
\* showMessage
CatFailed(i, error) ==
    /\ i \in 1..Len(catRequests)
    /\ catTimers < MaxTimers
    /\ catRequests' = RemoveAt(catRequests, i)
    /\ catc' = [catc EXCEPT !.message = CatErrorMessage(catRequests[i].kind, error)]
    /\ catTimers' = catTimers + 1
    /\ catLast' = [NoCatHandler EXCEPT !.op = "failed"]
    /\ UNCHANGED <<shelf, sessionVars, txVars, prodVars, dashVars>>

\* a setTimeout callback of CategoryComponent.showMessage runs
CatMessageTimeout ==
    /\ catTimers > 0
    /\ catTimers' = catTimers - 1
    /\ catc' = [catc EXCEPT !.message = Str("")]
    /\ catLast' = [NoCatHandler EXCEPT !.op = "timeout"]
    /\ UNCHANGED <<shelf, catRequests, sessionVars, txVars, prodVars, dashVars>>

NextCategory ==
    \/ CatNgOnInit
    \/ \E name \in TypedNames : CatTypeName(name)
    \/ CatAddCategory
    \/ CatEditCategory
    \/ \E i \in 1..Len(catc.categories) : CatHandleEditCategory(catc.categories[i])
    \/ \E i \in 1..Len(catc.categories), confirmed \in BOOLEAN :
          CatHandleDeleteCategory(catc.categories[i].id, confirmed)
    \/ \E i \in 1..MaxCatRequests, status \in CatStatuses : CatCategoriesLoaded(i, status)
    \/ \E i \in 1..MaxCatRequests, status \in CatStatuses : CatCreated(i, status)
    \/ \E i \in 1..MaxCatRequests, status \in CatStatuses : CatUpdated(i, status)
    \/ \E i \in 1..MaxCatRequests, status \in CatStatuses : CatDeleted(i, status)
    \/ \E i \in 1..MaxCatRequests, error \in LoadErrors : CatFailed(i, error)
    \/ CatMessageTimeout

\* the category view opened on a server holding any list of categories
InitCategory ==
    /\ SessionInit
    /\ TxInit
    /\ ProdInit(<<>>)
    /\ DashInit(<<>>)
    /\ zone = UTC
    /\ \E held \in Shelves : CatInit(held)

SpecCategory == InitCategory /\ [][NextCategory]_vars

(* C26: CategoryComponent.editCategory sends an updateCategory request     *)
(* only in editing mode: whenever editCategory has been called in a state  *)
(* where isEditing was false, it has sent no request.                      *)
C26_EditOnlyWhenEditing ==
    (catLast.op = "editCategory" /\ ~catLast.wasEditing) => catLast.sent = <<>>

(* C28: in TransactionComponent, once every outstanding getAllTransactions *)
(* answer has been delivered, the list on display is the one the server    *)
(* returned for the current valueToSearch, cut at the current page: the    *)
(* answer delivered last was asked with the search value the view holds,   *)
(* and totalPages and transactions are computed from that answer.          *)
C28_LatestRequestWins ==
    (TxOutstanding = 0 /\ txLast.op = "loaded") =>
        /\ txLast.search = txc.valueToSearch
        /\ IsCeil(txc.totalPages, Len(txLast.items), itemsPerPage)
        /\ txc.transactions = Window(txLast.items, txc.currentPage)

(* C29: in DashboardComponent, whenever no request is outstanding, every  *)
(* chart is computed from the list held in transactions: the counts by     *)
(* type, the amounts by type and, once a monthly answer has filled the     *)
(* daily chart, the daily totals.                                          *)
C29_ChartsOfHeldTransactions ==
    (DashOutstanding = 0 /\ dash.started /\ dash.transactions.type = "array") =>
        /\ dash.transactionTypeData = processChartData(dash).c.transactionTypeData
        /\ dash.transactionAmountData = processChartData(dash).c.transactionAmountData
        /\ dash.monthlyTransactionData # <<>> =>
              dash.monthlyTransactionData
                  = processMonthlyData(dash, dash.transactions, zone).c.monthlyTransactionData

(* C30: the timer of an earlier showMessage call never clears the message *)
(* of a later call. The timers of showMessage all wait 4000 ms and run in  *)
(* the order of their calls, so a timer that runs while another one is     *)
(* still waiting belongs to the earlier call, and the message on display   *)
(* is the later call's: no step of the transaction view in which a timer   *)
(* clears a message happens while a second timer is waiting.               *)
C30_TimerClearsOwnMessage ==
    [][ (txLast'.op = "timeout" /\ txc.message # Str("")) => txTimers = 1 ]_vars

====
